---- MODULE Spec2Model ----
(***************************************************************************)
(* PySequencer: the piano-roll grid (PianoRoll) and the application that   *)
(* drives its playback (PianoRollApp), src/pianoroll.py, over the key      *)
(* catalog of src/settings.py.                                             *)
(***************************************************************************)
EXTENDS Integers, Sequences, FiniteSets, TLC

(***************************************************************************)
(* settings.py                                                             *)
(***************************************************************************)
OCTAVES == 3

ROW_LENGTH == 1

NOTE_COUNT == 16

\* The pixel width of a cell: the literal 8 of on_mouse_move and
\* get_square_region.
CELL_WIDTH == 8

CURSOR_ROW == 12 * OCTAVES + 1

PianoKey(note, octave, sharp) == [note |-> note, octave |-> octave, sharp |-> sharp]

\* The twelve keys one pass of the loop appends for `octave`.
OctaveKeys(octave) ==
    << PianoKey("C", octave, FALSE), PianoKey("C", octave, TRUE),
       PianoKey("D", octave, FALSE), PianoKey("D", octave, TRUE),
       PianoKey("E", octave, FALSE),
       PianoKey("F", octave, FALSE), PianoKey("F", octave, TRUE),
       PianoKey("G", octave, FALSE), PianoKey("G", octave, TRUE),
       PianoKey("A", octave, FALSE), PianoKey("A", octave, TRUE),
       PianoKey("B", octave, FALSE) >>

\* for octave in range(OCTAVES, 0, -1): KEY_SEQUENCE.extend([...])
RECURSIVE KeysFrom(_)
KeysFrom(octave) ==
    IF octave <= 0 THEN << >> ELSE OctaveKeys(octave) \o KeysFrom(octave - 1)

PIANO_KEYS == KeysFrom(OCTAVES)

\* Python's list indexing, seq[i] with seq 0-based: a negative i counts from
\* the end, and an index outside -len..len-1 raises IndexError.
IndexOK(seq, i) == -Len(seq) <= i /\ i < Len(seq)

PyIndex(seq, i) == IF i >= 0 THEN seq[i + 1] ELSE seq[Len(seq) + i + 1]

(***************************************************************************)
(* textual.geometry: Offset and Region are named tuples.                   *)
(***************************************************************************)
Offset(x, y) == [x |-> x, y |-> y]

Region(x, y, width, height) == [x |-> x, y |-> y, width |-> width, height |-> height]

(***************************************************************************)
(* Python dicts from Offset to PianoKey.                                   *)
(***************************************************************************)
EmptyDict == [c \in {} |-> PyIndex(PIANO_KEYS, 0)]

\* dict.get(key): truthy exactly when the key is present (a PianoKey is
\* always truthy).
DictGet(d, key) == key \in DOMAIN d

\* A pop that empties the dict.
DictPop_DropsAll(d, key) == [c \in {} |-> d[c]]

DictPop(d, key) == [c \in DOMAIN d \ {key} |-> d[c]]

DictUpdate(d, key, value) ==
    [c \in DOMAIN d \cup {key} |-> IF c = key THEN value ELSE d[c]]

(***************************************************************************)
(* Bounds of the model.                                                    *)
(***************************************************************************)
\* The horizontal scroll offset is 0..MaxScroll.
MaxScroll == 1

\* Messages posted and not yet handled by the application.
MaxQueue == 1

\* play_sequence tasks alive at once.
MaxTasks == 2

\* The advances counted since the start (the count saturates there).
MaxAdvances == 18

\* event.offset of a mouse event, for the whole program: the first key's
\* row in the first note column.
CorePoints == {<< CELL_WIDTH, 1 >>}

\* event.offset of a mouse event, for the grid alone: the rows at both ends
\* of the key catalog in the first note column, and the last pixel of the
\* label column, which a scroll of one moves into the first note column.
GridPoints ==
    {<< CELL_WIDTH - 1, 1 >>, << CELL_WIDTH, 0 >>, << CELL_WIDTH, 1 >>,
     << CELL_WIDTH, Len(PIANO_KEYS) >>, << CELL_WIDTH, CURSOR_ROW >>}

\* event.offset of a mouse event, for a pointer that sweeps the viewport:
\* every row down to the last key, the note columns and the one after them.
SweepXs == {c * CELL_WIDTH : c \in 1..(NOTE_COUNT + 1)}

SweepYs == 0..Len(PIANO_KEYS)

ScrollXs == 0..MaxScroll

\* The lines rendered below the transport row.
MaxBlankRows == 2

\* event.offset of a mouse event, for the rendering: two cells of the first
\* key's row, and the transport row's first note column.
RenderPoints ==
    {<< CELL_WIDTH, 1 >>, << 2 * CELL_WIDTH, 1 >>, << CELL_WIDTH, Len(PIANO_KEYS) + 1 >>}

\* The lines rendered: the header row, the rows at both ends of the key
\* catalog, the transport row and the lines below it.
RenderRows ==
    {0, 1, Len(PIANO_KEYS)}
        \cup ((Len(PIANO_KEYS) + 1)..(Len(PIANO_KEYS) + 1 + MaxBlankRows))

\* self.size.width: one cell, and the whole line.
ViewportWidths == {CELL_WIDTH, (NOTE_COUNT + 1) * CELL_WIDTH}

\* The dict objects: the one the widget holds and those queued messages
\* still refer to.
DictIds == 0..(MaxQueue + 1)

VARIABLES
    cursor_cell,       \* PianoRoll.cursor_cell
    last_clicked,      \* PianoRoll.last_clicked
    drawn_keys_state,  \* PianoRoll.drawn_keys_state: the id of a dict object
    dicts,             \* the contents of the dict objects
    play_cursor,       \* PianoRoll.play_cursor
    scroll_offset,     \* ScrollView.scroll_offset
    dirty,             \* the regions the last handler of the widget refreshed
    is_playing,        \* PianoRollApp.is_playing
    tasks,             \* the play_sequence tasks, in creation order
    messages,          \* messages posted and not yet handled
    click_history,     \* the note maps before the last clicks in a row
    advances,          \* how many times play() has run (saturating)
    resume_from,       \* the cursor's column at the last stop, until the next
                       \* advance (0: no stop since the last advance)
    pointer,           \* where the pointer is: event.offset of the last move
    rendered           \* what render_line returned, if the last step was one

vars == << cursor_cell, last_clicked, drawn_keys_state, dicts, play_cursor,
           scroll_offset, dirty, is_playing, tasks, messages,
           click_history, advances, resume_from, pointer, rendered >>

\* The widget's and the application's own state.
widget == << cursor_cell, last_clicked, drawn_keys_state, dicts, play_cursor,
             scroll_offset, dirty, is_playing, tasks, messages,
             click_history, advances, resume_from >>

\* The note map: the dict the widget holds now.
NoteMap == dicts[drawn_keys_state]

(***************************************************************************)
(* Messages and the dict objects they refer to.                            *)
(***************************************************************************)
\* PianoRoll.Selected keeps the dict object it is given, not a copy of it.
Selected(clicked_cell, current_state) ==
    [type |-> "Selected", clicked_cell |-> clicked_cell, current_state |-> current_state]

Played(current_cell) == [type |-> "Played", current_cell |-> current_cell]

\* The dict objects the queued messages `msgs` refer to.
Referenced(msgs) ==
    {msgs[i].current_state : i \in {j \in 1..Len(msgs) : msgs[j].type = "Selected"}}

\* A dict object nothing refers to any more is gone.
Collect(ds, live) == [i \in DictIds |-> IF i \in live THEN ds[i] ELSE EmptyDict]

\* The object a dict display `{}` creates.
NewDict == CHOOSE i \in DictIds :
    /\ i \notin Referenced(messages) \cup {drawn_keys_state}
    /\ \A j \in DictIds : j < i => j \in Referenced(messages) \cup {drawn_keys_state}

(***************************************************************************)
(* PianoRoll                                                               *)
(***************************************************************************)
\* What the last handler asked the widget to repaint: refresh() repaints
\* all of it, refresh(region) one region.
RefreshNone == [all |-> FALSE, regions |-> << >>]

RefreshAll == [all |-> TRUE, regions |-> << >>]

get_square_region(square_offset) ==
    Region(square_offset.x * CELL_WIDTH - scroll_offset.x,
           square_offset.y * ROW_LENGTH - scroll_offset.y,
           CELL_WIDTH, ROW_LENGTH)

refresh_cell(previous_square, cursor_square) ==
    [all |-> FALSE,
     regions |-> << get_square_region(previous_square),
                    get_square_region(cursor_square) >>]

\* A reactive var calls its watcher only when the value assigned differs
\* from the one it holds: watch_cursor_cell, watch_last_clicked.
watch_cell(previous_cell, new_cell) ==
    IF new_cell # previous_cell THEN refresh_cell(previous_cell, new_cell) ELSE RefreshNone

\* The cell of a pointer offset: the coordinate mapping of on_mouse_move.
MouseCell(px, py) ==
    Offset((px + scroll_offset.x) \div CELL_WIDTH, (py + scroll_offset.y) \div ROW_LENGTH)

on_mouse_move(px, py) ==
    /\ cursor_cell' = MouseCell(px, py)
    /\ dirty' = watch_cell(cursor_cell, cursor_cell')
    /\ click_history' = << >>
    /\ UNCHANGED << last_clicked, drawn_keys_state, dicts, play_cursor,
                    scroll_offset, is_playing, tasks, messages, advances, resume_from >>

\* The condition of _on_click under which the note map is touched.
ClickGuard(cell) == cell.x > 0 /\ cell.y - 1 < Len(PIANO_KEYS)

\* A toggle that never switches a lit cell off.
Toggle_NeverPops(d, cell) == DictUpdate(d, cell, PyIndex(PIANO_KEYS, cell.y - 1))

\* The if/else of _on_click on the dict `d`.
Toggle(d, cell) ==
    IF DictGet(d, cell)
    THEN DictPop(d, cell)
    ELSE DictUpdate(d, cell, PyIndex(PIANO_KEYS, cell.y - 1))

\* PIANO_KEYS[cell.y - 1] raises IndexError: the handler stops there.
ClickRaises(d, cell) ==
    ClickGuard(cell) /\ ~DictGet(d, cell) /\ ~IndexOK(PIANO_KEYS, cell.y - 1)

LastTwo(seq) == IF Len(seq) <= 2 THEN seq ELSE SubSeq(seq, Len(seq) - 1, Len(seq))

on_click ==
    /\ last_clicked' = cursor_cell
    /\ dirty' = watch_cell(last_clicked, last_clicked')
    /\ dicts' = IF ClickGuard(last_clicked') /\ ~ClickRaises(NoteMap, last_clicked')
                THEN [dicts EXCEPT ![drawn_keys_state] = Toggle(NoteMap, last_clicked')]
                ELSE dicts
    /\ messages' = IF ClickRaises(NoteMap, last_clicked')
                   THEN messages
                   ELSE Append(messages, Selected(last_clicked', drawn_keys_state))
    /\ click_history' = LastTwo(Append(click_history, NoteMap))
    /\ UNCHANGED << cursor_cell, drawn_keys_state, play_cursor, scroll_offset,
                    is_playing, tasks, advances, resume_from >>

\* An advance that never wraps.
NextCursor_NoWrap(cursor) == Offset(cursor.x + 1, CURSOR_ROW)

\* An advance that wraps one column early.
NextCursor_WrapsEarly(cursor) ==
    IF cursor.x < 15 THEN Offset(cursor.x + 1, CURSOR_ROW) ELSE Offset(1, CURSOR_ROW)

NextCursor(cursor) ==
    IF cursor.x < 16 THEN Offset(cursor.x + 1, CURSOR_ROW) ELSE Offset(1, CURSOR_ROW)

PreviousCell(cursor) ==
    IF cursor.x < 16 THEN Offset(cursor.x - 1, CURSOR_ROW) ELSE Offset(16, CURSOR_ROW)

CountAdvance(n) == IF n < MaxAdvances THEN n + 1 ELSE n

\* A play() that posts Played after it has moved the cursor.
play_PostsAfterMove ==
    /\ Len(messages) < MaxQueue
    /\ play_cursor' = IF play_cursor.x < 16
                      THEN Offset(play_cursor.x + 1, CURSOR_ROW)
                      ELSE Offset(1, CURSOR_ROW)
    /\ messages' = Append(messages, Played(play_cursor'))
    /\ dirty' = refresh_cell(IF play_cursor.x < 16
                             THEN Offset(play_cursor.x - 1, CURSOR_ROW)
                             ELSE Offset(16, CURSOR_ROW), play_cursor')
    /\ advances' = IF advances < MaxAdvances THEN advances + 1 ELSE advances
    /\ resume_from' = 0

play ==
    /\ Len(messages) < MaxQueue
    /\ messages' = Append(messages, Played(play_cursor))
    /\ play_cursor' = NextCursor(play_cursor)
    /\ dirty' = refresh_cell(PreviousCell(play_cursor), play_cursor')
    /\ advances' = CountAdvance(advances)
    /\ resume_from' = 0

\* A clear that only repaints.
clear_KeepsNotes ==
    /\ dirty' = RefreshAll
    /\ UNCHANGED << drawn_keys_state, dicts >>

\* Assigning to a reactive var stores the new object only when it differs
\* (!=) from the value held: an empty dict stays the object it is.
clear ==
    /\ drawn_keys_state' = IF NoteMap # EmptyDict THEN NewDict ELSE drawn_keys_state
    /\ dicts' = Collect([dicts EXCEPT ![drawn_keys_state'] = EmptyDict],
                        Referenced(messages) \cup {drawn_keys_state'})
    /\ dirty' = RefreshAll

\* The viewport scrolls horizontally: ScrollView repaints the widget.
scroll_to(sx) ==
    /\ sx # scroll_offset.x
    /\ scroll_offset' = Offset(sx, 0)
    /\ dirty' = RefreshAll
    /\ click_history' = << >>
    /\ UNCHANGED << cursor_cell, last_clicked, drawn_keys_state, dicts, play_cursor,
                    is_playing, tasks, messages, advances, resume_from >>

\* get_style of render_line; "IndexError" where PIANO_KEYS[row_index - 1]
\* raises.  A style that tests the note map before the hover cursor.
get_style_SelectedFirst(column, row) ==
    IF row = Len(PIANO_KEYS) + 1
    THEN IF Offset(column, row) = play_cursor THEN "play_active" ELSE "play_inactive"
    ELSE IF DictGet(NoteMap, Offset(column, row)) THEN "selected"
    ELSE IF cursor_cell = Offset(column, row) THEN "cursor"
    ELSE IF ~IndexOK(PIANO_KEYS, row - 1) THEN "IndexError"
    ELSE IF column = 0
         THEN IF PyIndex(PIANO_KEYS, row - 1).sharp THEN "black_key" ELSE "white_key"
         ELSE IF PyIndex(PIANO_KEYS, row - 1).sharp THEN "black_cell" ELSE "white_cell"

\* A style that tests the hover cursor before the transport row.
get_style_HoverFirst(column, row) ==
    IF cursor_cell = Offset(column, row) THEN "cursor"
    ELSE IF row = Len(PIANO_KEYS) + 1
    THEN IF Offset(column, row) = play_cursor THEN "play_active" ELSE "play_inactive"
    ELSE IF DictGet(NoteMap, Offset(column, row)) THEN "selected"
    ELSE IF ~IndexOK(PIANO_KEYS, row - 1) THEN "IndexError"
    ELSE IF column = 0
         THEN IF PyIndex(PIANO_KEYS, row - 1).sharp THEN "black_key" ELSE "white_key"
         ELSE IF PyIndex(PIANO_KEYS, row - 1).sharp THEN "black_cell" ELSE "white_cell"

get_style(column, row) ==
    IF row = Len(PIANO_KEYS) + 1
    THEN IF Offset(column, row) = play_cursor THEN "play_active" ELSE "play_inactive"
    ELSE IF cursor_cell = Offset(column, row) THEN "cursor"
    ELSE IF DictGet(NoteMap, Offset(column, row)) THEN "selected"
    ELSE IF ~IndexOK(PIANO_KEYS, row - 1) THEN "IndexError"
    ELSE IF column = 0
         THEN IF PyIndex(PIANO_KEYS, row - 1).sharp THEN "black_key" ELSE "white_key"
         ELSE IF PyIndex(PIANO_KEYS, row - 1).sharp THEN "black_cell" ELSE "white_cell"

\* Segment(" " * 8, style): a run of cells in one style.
Segment(style, width) == [style |-> style, width |-> width]

\* What render_line returns: "strip" with the styles of the line's cells and
\* the cropped segments, "blank" with one unstyled segment, or "raise".
Strip(kind, row_index, styles, segments) ==
    [kind |-> kind, row |-> row_index, styles |-> styles, segments |-> segments]

NoStrip == Strip("none", 0, << >>, << >>)

Max(a, b) == IF a >= b THEN a ELSE b

Min(a, b) == IF a <= b THEN a ELSE b

\* Strip.crop(start, end): the part of each segment inside [start, end).
Crop(styles, start, end) ==
    LET cut(k) == Segment(styles[k],
                          Max(0, Min(k * CELL_WIDTH, end) - Max((k - 1) * CELL_WIDTH, start)))
        Visible(seg) == seg.width > 0
    IN SelectSeq([k \in 1..Len(styles) |-> cut(k)], Visible)

\* A render_line that returns blank lines one row later.
render_line_BlankLate(y, width) ==
    LET row_index == (y + scroll_offset.y) \div ROW_LENGTH
        styles == [k \in 1..(NOTE_COUNT + 1) |-> get_style(k - 1, row_index)]
    IN /\ rendered' =
            IF row_index > Len(PIANO_KEYS) + 2
            THEN Strip("blank", row_index, << >>, << Segment("none", width) >>)
            ELSE IF \E k \in 1..Len(styles) : styles[k] = "IndexError"
            THEN Strip("raise", row_index, << >>, << >>)
            ELSE Strip("strip", row_index, styles,
                       Crop(styles, scroll_offset.x, scroll_offset.x + width))
       /\ UNCHANGED << widget, pointer >>

\* render_line(y) in a viewport `width` wide (self.size.width).
render_line(y, width) ==
    LET row_index == (y + scroll_offset.y) \div ROW_LENGTH
        styles == [k \in 1..(NOTE_COUNT + 1) |-> get_style(k - 1, row_index)]
    IN /\ rendered' =
            IF row_index > Len(PIANO_KEYS) + 1
            THEN Strip("blank", row_index, << >>, << Segment("none", width) >>)
            ELSE IF \E k \in 1..Len(styles) : styles[k] = "IndexError"
            THEN Strip("raise", row_index, << >>, << >>)
            ELSE Strip("strip", row_index, styles,
                       Crop(styles, scroll_offset.x, scroll_offset.x + width))
       /\ UNCHANGED << widget, pointer >>

(***************************************************************************)
(* PianoRollApp                                                            *)
(***************************************************************************)
toggle_play == is_playing' = ~is_playing

\* A start that rewinds the cursor to column 1.
action_play_RewindsOnStart ==
    /\ is_playing \/ Len(tasks) < MaxTasks
    /\ toggle_play
    /\ tasks' = IF is_playing' THEN Append(tasks, "start") ELSE tasks
    /\ play_cursor' = IF is_playing' THEN Offset(1, CURSOR_ROW) ELSE play_cursor
    /\ resume_from' = IF is_playing THEN play_cursor.x ELSE resume_from
    /\ click_history' = << >>
    /\ UNCHANGED << cursor_cell, last_clicked, drawn_keys_state, dicts,
                    scroll_offset, dirty, messages, advances >>

\* A stop that rewinds the cursor to column 1.
action_play_RewindsOnStop ==
    /\ is_playing \/ Len(tasks) < MaxTasks
    /\ toggle_play
    /\ tasks' = IF is_playing' THEN Append(tasks, "start") ELSE tasks
    /\ play_cursor' = IF is_playing THEN Offset(1, CURSOR_ROW) ELSE play_cursor
    /\ resume_from' = IF is_playing THEN play_cursor.x ELSE resume_from
    /\ click_history' = << >>
    /\ UNCHANGED << cursor_cell, last_clicked, drawn_keys_state, dicts,
                    scroll_offset, dirty, messages, advances >>

action_play ==
    /\ is_playing \/ Len(tasks) < MaxTasks
    /\ toggle_play
    /\ tasks' = IF is_playing' THEN Append(tasks, "start") ELSE tasks
    /\ resume_from' = IF is_playing THEN play_cursor.x ELSE resume_from
    /\ click_history' = << >>
    /\ UNCHANGED << cursor_cell, last_clicked, drawn_keys_state, dicts, play_cursor,
                    scroll_offset, dirty, messages, advances >>

action_clear ==
    /\ clear
    /\ click_history' = << >>
    /\ UNCHANGED << cursor_cell, last_clicked, play_cursor, scroll_offset,
                    is_playing, tasks, messages, advances, resume_from >>

RemoveAt(seq, i) == SubSeq(seq, 1, i - 1) \o SubSeq(seq, i + 1, Len(seq))

\* A task that calls play() without testing is_playing.
play_sequence_NeverTests(i) ==
    /\ i \in 1..Len(tasks)
    /\ play
    /\ tasks' = [tasks EXCEPT ![i] = "sleep"]
    /\ click_history' = << >>
    /\ UNCHANGED << cursor_cell, last_clicked, drawn_keys_state, dicts,
                    scroll_offset, is_playing >>

\* A task that calls play() once and ends.
play_sequence_NoLoop(i) ==
    /\ i \in 1..Len(tasks)
    /\ IF is_playing
       THEN /\ play
            /\ tasks' = RemoveAt(tasks, i)
       ELSE /\ tasks' = RemoveAt(tasks, i)
            /\ UNCHANGED << messages, play_cursor, dirty, advances, resume_from >>
    /\ click_history' = << >>
    /\ UNCHANGED << cursor_cell, last_clicked, drawn_keys_state, dicts,
                    scroll_offset, is_playing >>

\* Task i runs from where it waits (its start, or its sleep) to its next
\* await, or to its end: one test of the while condition.
play_sequence(i) ==
    /\ i \in 1..Len(tasks)
    /\ IF is_playing
       THEN /\ play
            /\ tasks' = [tasks EXCEPT ![i] = "sleep"]
       ELSE /\ tasks' = RemoveAt(tasks, i)
            /\ UNCHANGED << messages, play_cursor, dirty, advances, resume_from >>
    /\ click_history' = << >>
    /\ UNCHANGED << cursor_cell, last_clicked, drawn_keys_state, dicts,
                    scroll_offset, is_playing >>

on_piano_roll_selected ==
    /\ messages # << >>
    /\ Head(messages).type = "Selected"
    /\ messages' = Tail(messages)
    /\ dicts' = Collect(dicts, Referenced(messages') \cup {drawn_keys_state})
    /\ UNCHANGED << cursor_cell, last_clicked, drawn_keys_state, play_cursor,
                    scroll_offset, dirty, is_playing, tasks, click_history, advances, resume_from >>

on_piano_roll_played ==
    /\ messages # << >>
    /\ Head(messages).type = "Played"
    /\ messages' = Tail(messages)
    /\ UNCHANGED << cursor_cell, last_clicked, drawn_keys_state, dicts, play_cursor,
                    scroll_offset, dirty, is_playing, tasks, click_history, advances, resume_from >>

(***************************************************************************)
(* The program.  Spec is the whole of it: every handler, with the pointer  *)
(* on CorePoints.  SpecGrid is the grid without playback, with the pointer *)
(* on the cells at the edges of the grid; the handlers it leaves out do    *)
(* not write the grid's variables.  SpecSweep is one run of the grid.      *)
(***************************************************************************)
Init ==
    /\ cursor_cell = Offset(0, 0)
    /\ last_clicked = Offset(0, 0)
    /\ drawn_keys_state = 0
    /\ dicts = [i \in DictIds |-> EmptyDict]
    /\ play_cursor = Offset(1, CURSOR_ROW)
    /\ scroll_offset = Offset(0, 0)
    /\ dirty = RefreshNone
    /\ is_playing = FALSE
    /\ tasks = << >>
    /\ messages = << >>
    /\ click_history = << >>
    /\ advances = 0
    /\ resume_from = 0
    /\ pointer = << 0, 0 >>
    /\ rendered = NoStrip

\* A step that is not a call of render_line returns no strip.
NoRender == rendered' = NoStrip

\* The whole program: every event, the pointer on CorePoints.
MouseMove ==
    \E p \in CorePoints : on_mouse_move(p[1], p[2]) /\ pointer' = p /\ NoRender

\* A click where the pointer is, once the queue has room for its message.
Click == Len(messages) < MaxQueue /\ on_click /\ UNCHANGED pointer /\ NoRender

Scroll == (\E sx \in ScrollXs : scroll_to(sx)) /\ UNCHANGED pointer /\ NoRender

KeySpace == action_play /\ UNCHANGED pointer /\ NoRender

KeyC == action_clear /\ UNCHANGED pointer /\ NoRender

Tick == (\E i \in 1..MaxTasks : play_sequence(i)) /\ UNCHANGED pointer /\ NoRender

HandleSelected == on_piano_roll_selected /\ UNCHANGED pointer /\ NoRender

HandlePlayed == on_piano_roll_played /\ UNCHANGED pointer /\ NoRender

Next ==
    \/ MouseMove
    \/ Click
    \/ Scroll
    \/ KeySpace
    \/ KeyC
    \/ Tick
    \/ HandleSelected
    \/ HandlePlayed

Spec == Init /\ [][Next]_vars

\* The grid alone, playback never started: the pointer on GridPoints.
GridMouseMove ==
    \E p \in GridPoints : on_mouse_move(p[1], p[2]) /\ pointer' = p /\ NoRender

GridNext ==
    \/ GridMouseMove
    \/ Click
    \/ Scroll
    \/ KeyC
    \/ HandleSelected

SpecGrid == Init /\ [][GridNext]_vars

\* Where the whole program is once playback was started, play() ran n
\* times, and playback was stopped and its task has ended.
RECURSIVE CursorAfter(_)
CursorAfter(n) ==
    IF n = 0 THEN Offset(1, CURSOR_ROW) ELSE NextCursor(CursorAfter(n - 1))

StoppedState(n) ==
    /\ cursor_cell = Offset(0, 0)
    /\ last_clicked = Offset(0, 0)
    /\ drawn_keys_state = 0
    /\ dicts = [i \in DictIds |-> EmptyDict]
    /\ play_cursor = CursorAfter(n)
    /\ scroll_offset = Offset(0, 0)
    /\ dirty = IF n = 0 THEN RefreshNone
               ELSE refresh_cell(PreviousCell(CursorAfter(n - 1)), CursorAfter(n))
    /\ is_playing = FALSE
    /\ tasks = << >>
    /\ messages = << >>
    /\ click_history = << >>
    /\ advances = IF n < MaxAdvances THEN n ELSE MaxAdvances
    /\ resume_from = IF n = 0 THEN 0 ELSE CursorAfter(n).x
    /\ pointer = << 0, 0 >>
    /\ rendered = NoStrip

\* The rendering: the grid with the pointer on RenderPoints, and the lines
\* of RenderRows rendered between the events, after playback has run.
\* How often play() ran: never, once, up to the last column, and past it.
StoppedAfter == {0, 1, NOTE_COUNT - 1, NOTE_COUNT}

RenderInit == \E n \in StoppedAfter : StoppedState(n)

RenderMouseMove ==
    \E p \in RenderPoints : on_mouse_move(p[1], p[2]) /\ pointer' = p /\ NoRender

Render == \E y \in RenderRows, width \in ViewportWidths : render_line(y, width)

RenderNext ==
    \/ RenderMouseMove
    \/ Click
    \/ HandleSelected
    \/ Render

SpecRender == RenderInit /\ [][RenderNext]_vars

\* The grid with an application that is slow to handle messages: a click
\* is processed while the Selected message of the click before it is still
\* queued.
QueuedClick == Len(messages) <= MaxQueue /\ on_click /\ UNCHANGED pointer /\ NoRender

QueueNext ==
    \/ MouseMove
    \/ QueuedClick
    \/ KeyC
    \/ HandleSelected

SpecQueue == Init /\ [][QueueNext]_vars

\* The program under a fair event loop, from where it is once play() has
\* run as often as advances counts.  A task that sleeps wakes
\* after TICK and the application handles every message posted to it.  In
\* the code play() can always run; here it waits for room in the queue,
\* which clicks may take again and again, hence the strong fairness.
LiveInit == StoppedState(MaxAdvances)

LiveNext ==
    \/ MouseMove
    \/ Click
    \/ KeySpace
    \/ KeyC
    \/ Tick
    \/ HandleSelected
    \/ HandlePlayed

SpecLive ==
    /\ LiveInit /\ [][LiveNext]_vars
    /\ SF_vars(Tick)
    /\ WF_vars(HandlePlayed)
    /\ WF_vars(HandleSelected)

\* The pointer sweeps the viewport column by column, each column from row 0
\* down to the last key, and clicks every cell once.
SweepSuccessor(cell) ==
    IF cell.x = 0 THEN Offset(1, 0)
    ELSE IF cell.y < Len(PIANO_KEYS) THEN Offset(cell.x, cell.y + 1)
    ELSE Offset(cell.x + 1, 0)

SweepMove ==
    /\ cursor_cell.x = 0 \/ DictGet(NoteMap, cursor_cell)
    /\ \E px \in SweepXs, py \in SweepYs :
          /\ MouseCell(px, py) = SweepSuccessor(cursor_cell)
          /\ on_mouse_move(px, py)
          /\ pointer' = << px, py >>
          /\ NoRender

SweepClick ==
    /\ cursor_cell.x > 0
    /\ ~DictGet(NoteMap, cursor_cell)
    /\ Click

SweepNext ==
    \/ SweepMove
    \/ SweepClick
    \/ HandleSelected

SpecSweep == Init /\ [][SweepNext]_vars

(***************************************************************************)
(* The properties                                                          *)
(***************************************************************************)
\* An address of the note grid: a note column and the row of a key.
InRange(a) == a.x > 0 /\ 1 <= a.y /\ a.y <= Len(PIANO_KEYS)

\* The step is one advance of the playback cursor: a task finds is_playing
\* set and calls play().
AdvanceStep == is_playing /\ \E i \in 1..Len(tasks) : play_sequence(i)

\* The Played messages among the queued ones, oldest first.
PlayedOf(msgs) == SelectSeq(msgs, LAMBDA m : m.type = "Played")

\* The column the n-th advance since the start leaves from.
ColumnOfAdvance(n) == ((n - 1) % NOTE_COUNT) + 1

\* C1: a click on an address with column 0 or with a row outside
\* 1..len(catalog) leaves the note map as it was, and still posts one
\* Selected message that carries the address.
C1_OutOfRangeClickKeepsNoteMap ==
    [][on_click /\ ~InRange(cursor_cell)
        => /\ dicts'[drawn_keys_state'] = NoteMap
           /\ messages' = Append(messages, Selected(cursor_cell, drawn_keys_state'))]_vars

\* C2: every entry of the note map has a column >= 1, a row in
\* 1..len(catalog), and the key of its row as its value.
C2_NoteMapWithinCatalog ==
    \A c \in DOMAIN NoteMap :
        /\ c.x >= 1
        /\ c.y \in 1..Len(PIANO_KEYS)
        /\ NoteMap[c] = PIANO_KEYS[c.y]

\* C3: a click on an in-range address flips that cell and no other: a lit
\* cell leaves the note map, an unlit one enters it with the key of its
\* row, and every other entry stays.
C3_ToggleFlipsOneCell ==
    [][on_click /\ InRange(cursor_cell)
        => LET a == cursor_cell
               after == dicts'[drawn_keys_state']
           IN  /\ drawn_keys_state' = drawn_keys_state
               /\ DOMAIN after = IF a \in DOMAIN NoteMap
                                 THEN DOMAIN NoteMap \ {a}
                                 ELSE DOMAIN NoteMap \cup {a}
               /\ a \in DOMAIN after => after[a] = PIANO_KEYS[a.y]
               /\ \A c \in DOMAIN after \ {a} : after[c] = NoteMap[c]]_vars

\* C3 witness: the last event was a click on an in-range address, which lit
\* it, and another cell is lit as well.
C3_Witness ==
    /\ click_history # << >>
    /\ InRange(last_clicked)
    /\ last_clicked \in DOMAIN NoteMap
    /\ Cardinality(DOMAIN NoteMap) >= 2

\* C4: after two clicks in a row on an in-range address, with no other
\* event between them, the note map is what it was before the first.
C4_DoubleToggleRestores ==
    Len(click_history) = 2 /\ InRange(last_clicked) => NoteMap = click_history[1]

\* C4 witness: two clicks in a row on an in-range address that was lit, with
\* another cell lit too.
C4_Witness ==
    /\ Len(click_history) = 2
    /\ InRange(last_clicked)
    /\ last_clicked \in DOMAIN NoteMap
    /\ click_history[2] # NoteMap
    /\ Cardinality(DOMAIN NoteMap) >= 2

\* C5: the note map never holds more than StepCount x key count cells.
C5_NoteMapWithinGrid ==
    Cardinality(DOMAIN NoteMap) <= NOTE_COUNT * Len(PIANO_KEYS)

\* C6: the playback cursor starts in column 1 and is always in a column of
\* 1..StepCount, on the transport row 12 x octaves + 1.
C6_CursorInTransportRow ==
    /\ play_cursor.x = 1
    /\ [](/\ play_cursor.x \in 1..NOTE_COUNT
          /\ play_cursor.y = 12 * OCTAVES + 1)

\* C6 witness: the cursor is in the last column.
C6_Witness == play_cursor.x = NOTE_COUNT /\ advances = NOTE_COUNT - 1

\* C7: an advance moves the cursor from column c to c + 1, and from the
\* last column to column 1; so 15 advances from the start leave it in
\* column 16 and the 16th brings it back to column 1.
C7_AdvanceStepsAndWraps ==
    /\ [][AdvanceStep
            => play_cursor'.x = IF play_cursor.x < NOTE_COUNT
                                THEN play_cursor.x + 1 ELSE 1]_vars
    /\ [](/\ advances = NOTE_COUNT - 1 => play_cursor.x = NOTE_COUNT
          /\ advances = NOTE_COUNT => play_cursor.x = 1)

\* C7 witness: the 16th advance has wrapped the cursor to column 1.
C7_Witness == advances = NOTE_COUNT /\ play_cursor.x = 1

\* C8: an advance posts exactly one Played message, which carries the
\* cursor as it was before the advance; so the n-th advance since the start
\* reports column ((n - 1) mod 16) + 1: 1, 2, ..., 16, 1, 2, ...
C8_PlayedCarriesPreviousCursor ==
    /\ [][AdvanceStep => messages' = Append(messages, Played(play_cursor))]_vars
    /\ [](advances < MaxAdvances =>
            LET played == PlayedOf(messages)
            IN  \A j \in 1..Len(played) :
                    played[j].current_cell =
                        Offset(ColumnOfAdvance(advances - (Len(played) - j)), CURSOR_ROW))

\* C8 witness: the 17th advance has reported column 1 again.
C8_Witness ==
    /\ advances = NOTE_COUNT + 1
    /\ messages # << >>
    /\ messages[Len(messages)] = Played(Offset(1, CURSOR_ROW))

\* C9: the two cells an advance reports dirty are the cell of the cursor's
\* column before the advance and the cell of its column after it, both on
\* the transport row.
C9_DirtyPairIsPreviousAndNew ==
    [][AdvanceStep
        => dirty' = [all |-> FALSE,
                     regions |-> << get_square_region(Offset(play_cursor.x, CURSOR_ROW)),
                                    get_square_region(Offset(play_cursor'.x, CURSOR_ROW)) >>]]_vars

\* C10: at most one play_sequence task exists at any time.
C10_AtMostOneTickSource == Len(tasks) <= 1

\* C11: while playback is stopped no advance happens: no step changes the
\* playback cursor, counts a call of play() or posts a Played message, also
\* when a task that slept through the stop wakes.
C11_NoAdvanceWhileStopped ==
    [][~is_playing
        => /\ play_cursor' = play_cursor
           /\ advances' = advances
           /\ Len(PlayedOf(messages')) <= Len(PlayedOf(messages))]_vars

\* C11 witness: playback is stopped, and the task that had advanced the
\* cursor and slept has woken and ended.
C11_Witness == ~is_playing /\ tasks = << >> /\ advances > 0

\* C12: a stop leaves the cursor where it is and a restart continues from
\* there: from the stop until the next advance the cursor keeps the column
\* it had at the stop, and that advance, the first after the restart, posts
\* Played with that column.
C12_RestartContinuesFromStop ==
    /\ [](resume_from # 0 => play_cursor = Offset(resume_from, CURSOR_ROW))
    /\ [][AdvanceStep /\ resume_from # 0
            => messages' = Append(messages, Played(Offset(resume_from, CURSOR_ROW)))]_vars

\* C12 witness: playback was stopped in column 3 and restarted, and the first
\* advance since has posted Played with column 3.
C12_Witness ==
    /\ is_playing
    /\ resume_from = 0
    /\ advances = 3
    /\ Len(tasks) = 2
    /\ tasks[2] = "sleep"
    /\ messages # << >>
    /\ messages[Len(messages)] = Played(Offset(3, CURSOR_ROW))

\* C13, as claimed: after a stop and a restart the cursor is in column 1,
\* from where the first advance after the restart starts.
C13_RestartResetsToColumnOne ==
    is_playing /\ resume_from # 0 => play_cursor.x = 1

\* C13, amended: neither the stop nor the start command moves the cursor;
\* after a restart it is in the column it had at the stop, not in column 1.
C13_StartAndStopKeepCursor ==
    [][action_play => play_cursor' = play_cursor]_vars

\* C13 witness: playback was stopped outside column 1 and has been restarted,
\* with no advance since.
C13_Witness == is_playing /\ resume_from > 1 /\ play_cursor.x = resume_from

\* C16: the clear command empties the note map whatever it held, and leaves
\* the playback cursor, the hover cursor and the playing flag as they were.
C16_ClearEmptiesOnlyNoteMap ==
    [][action_clear
        => /\ NoteMap' = EmptyDict
           /\ UNCHANGED << play_cursor, cursor_cell, is_playing >>]_vars

\* C16 witness: a lit note map has been replaced by a new empty one while
\* playback runs with the cursor past column 1 and the pointer on a cell.
C16_Witness ==
    /\ NoteMap = EmptyDict
    /\ drawn_keys_state # 0
    /\ dirty = RefreshAll
    /\ is_playing
    /\ play_cursor.x > 1
    /\ cursor_cell # Offset(0, 0)

\* The styles get_style chooses from.
Styles ==
    {"white_key", "white_cell", "black_key", "black_cell", "cursor", "selected",
     "play_inactive", "play_active"}

\* C14: in a rendered line that is not the transport row, a lit cell has the
\* hover style when the pointer is on it and the selected style when it is
\* not; the hover cell never shows as selected.
C14_HoverOverridesSelected ==
    rendered.kind = "strip" /\ rendered.row # CURSOR_ROW
        => \A column \in 0..NOTE_COUNT :
              /\ DictGet(NoteMap, Offset(column, rendered.row))
                    => rendered.styles[column + 1] =
                          IF cursor_cell = Offset(column, rendered.row)
                          THEN "cursor" ELSE "selected"
              /\ cursor_cell = Offset(column, rendered.row)
                    => rendered.styles[column + 1] # "selected"

\* C14 witness: the first key's row is rendered with two lit cells, the
\* pointer on the first: it shows as hover, the other as selected.
C14_Witness ==
    /\ rendered.kind = "strip"
    /\ rendered.row = 1
    /\ cursor_cell = Offset(1, 1)
    /\ DictGet(NoteMap, Offset(1, 1))
    /\ DictGet(NoteMap, Offset(2, 1))
    /\ rendered.styles[2] = "cursor"
    /\ rendered.styles[3] = "selected"

\* C15: in the rendered transport row every column 0..NOTE_COUNT has the
\* play-active style exactly when it is the playback cursor's cell and the
\* play-inactive style otherwise, wherever the pointer is and whatever the
\* note map holds.
C15_TransportRowShowsOnlyPlayStyles ==
    rendered.kind # "none" /\ rendered.row = CURSOR_ROW
        => /\ rendered.kind = "strip"
           /\ \A column \in 0..NOTE_COUNT :
                 rendered.styles[column + 1] =
                    IF Offset(column, CURSOR_ROW) = play_cursor
                    THEN "play_active" ELSE "play_inactive"

\* C15 witness: the transport row is rendered with the pointer on its first
\* note column, the playback cursor on the second and a lit note map.
C15_Witness ==
    /\ rendered.kind = "strip"
    /\ rendered.row = CURSOR_ROW
    /\ cursor_cell = Offset(1, CURSOR_ROW)
    /\ play_cursor = Offset(2, CURSOR_ROW)
    /\ NoteMap # EmptyDict
    /\ rendered.styles[2] = "play_inactive"
    /\ rendered.styles[3] = "play_active"

\* C17: rendering a line of row index >= 0 never raises; a row below the
\* transport row gives one blank segment, and the rows 0..len(PIANO_KEYS)+1
\* give NOTE_COUNT + 1 styled cells, for the columns 0..NOTE_COUNT.
C17_RenderLineIsTotal ==
    rendered.kind # "none"
        => /\ rendered.kind # "raise"
           /\ rendered.row > Len(PIANO_KEYS) + 1
                 => /\ rendered.kind = "blank"
                    /\ Len(rendered.segments) = 1
                    /\ rendered.segments[1].style = "none"
           /\ rendered.row \in 0..(Len(PIANO_KEYS) + 1)
                 => /\ rendered.kind = "strip"
                    /\ DOMAIN rendered.styles = 1..(NOTE_COUNT + 1)
                    /\ \A k \in DOMAIN rendered.styles : rendered.styles[k] \in Styles

\* C17 witness: row 0, whose key is looked up at index -1, is rendered with
\* the label column in the last key's colour, while the note map is lit.
C17_Witness ==
    /\ rendered.kind = "strip"
    /\ rendered.row = 0
    /\ rendered.styles[1] = "white_key"
    /\ NoteMap # EmptyDict

\* C18: the cell a click marks, toggles and reports is the cell of the
\* click's own pixel offset under the scroll offset of that moment: after a
\* click, and before any other input, last_clicked is the cell the
\* pointer's position maps to.
C18_ClickUsesItsOwnOffset ==
    click_history # << >> => last_clicked = MouseCell(pointer[1], pointer[2])

\* C19: the note map a queued Selected message carries stays the value it
\* had when the message was posted until the message is handled: no step
\* changes the contents of a dict that a message queued before and after
\* the step refers to.
C19_QueuedSnapshotIsFrozen ==
    [][\A ref \in Referenced(messages) \cap Referenced(messages') :
          dicts'[ref] = dicts[ref]]_vars

\* C20: if playback is started and from some point on never stopped, the
\* playback cursor is in every column 1..NOTE_COUNT again and again, and a
\* Played message for every column is posted again and again, whatever
\* pointer moves, clicks and clears come in between.
C20_EveryColumnAgainAndAgain ==
    \A c \in 1..NOTE_COUNT :
        <>[]is_playing
            => /\ []<>(play_cursor.x = c)
               /\ []<>(/\ messages # << >>
                       /\ messages[Len(messages)] = Played(Offset(c, CURSOR_ROW)))

\* C20 witness: playback runs, the cursor has passed the last column and
\* started again, and clicks and a clear came in between.
C20_Witness ==
    /\ is_playing
    /\ play_cursor.x = 1
    /\ messages # << >>
    /\ messages[Len(messages)] = Played(Offset(NOTE_COUNT, CURSOR_ROW))
    /\ drawn_keys_state # 0
    /\ NoteMap # EmptyDict

====
